---- MODULE Spec2Model ----
(***************************************************************************)
(* Model of src/playbulb-adapter.js (the noble-based PlaybulbAdapter,     *)
(* lines 193-505): the BLE discovery / scan coordination of the adapter,  *)
(* the discover handler and the device registry it feeds.                 *)
(*                                                                         *)
(* The radio stack (noble) is the environment.  Commands the adapter      *)
(* issues (noble.startScanning / noble.stopScanning) travel to the radio  *)
(* in the queue `pending`; the radio executes them later and reports with *)
(* scanStart / scanStop events, and it may also start or stop scanning or *)
(* change its power state on its own.  An event is delivered with         *)
(* EventEmitter.emit: every registered listener is called, in order, and  *)
(* a handler registered k times is called k times.                        *)
(***************************************************************************)
EXTENDS Integers, Sequences, FiniteSets, TLC

\* ------------------------------------------------------------------ bounds
\* startPairing is not called when a handler is already registered this often.
MaxListeners == 2
\* Capacity of the command queue to the radio, in stopScanning commands.
MaxPending == 2
\* Matching discover events delivered per discovery session.
MaxAdds == 2

\* ------------------------------------------------------------- vocabulary
EventTypes == {"stateChange", "scanStart", "scanStop", "discover"}

\* noble's power states; only "poweredOn" is named in the source.
States == {"poweredOn", "poweredOff", "resetting", "unauthorized",
           "unsupported", "unknown"}

Addresses == {"AA:01", "AA:02"}

None == [has |-> FALSE, val |-> <<>>]
Some(v) == [has |-> TRUE, val |-> v]

\* Strings the code inspects character by character are sequences of characters.
PlaybulbPrefix == <<"P", "L", "A", "Y", "B", "U", "L", "B", " ">>
MiPowPrefix == <<"4", "d", "4", "9">>

NameCandle == PlaybulbPrefix \o <<"C", "A", "N", "D", "L", "E">>
NameNoSpace == <<"P", "L", "A", "Y", "B", "U", "L", "B">>
LocalNames == {None, Some(NameCandle), Some(NameNoSpace)}

\* 0x4d 0x49 0x01 is MiPow's signature followed by payload; 0x4c 0x00 is not.
ManufacturerDatas == {None, Some(<<77, 73, 1>>), Some(<<76, 0>>)}

Advertisements ==
  [localName : LocalNames, manufacturerData : ManufacturerDatas,
   connectable : BOOLEAN, address : Addresses]

\* ---------------------------------------------------------- pure helpers
StartsWith(s, prefix) ==
  /\ Len(s) >= Len(prefix)
  /\ SubSeq(s, 1, Len(prefix)) = prefix

HexDigits == <<"0", "1", "2", "3", "4", "5", "6", "7",
               "8", "9", "a", "b", "c", "d", "e", "f">>

\* Buffer.toString('hex'): two lower-case hex digits per byte.
RECURSIVE ToHex(_)
ToHex(bytes) ==
  IF bytes = <<>> THEN <<>>
  ELSE <<HexDigits[(Head(bytes) \div 16) + 1], HexDigits[(Head(bytes) % 16) + 1]>>
       \o ToHex(Tail(bytes))

RECURSIVE Repeat(_, _)
Repeat(n, cmds) == IF n = 0 THEN <<>> ELSE cmds \o Repeat(n - 1, cmds)

Count(cmds, c) == Cardinality({i \in 1..Len(cmds) : cmds[i] = c})

\* A stop the radio executes makes every scanStop listener answer with a start,
\* so a queued stop stands for up to MaxListeners further commands.
RECURSIVE PendingWeight(_)
PendingWeight(cmds) ==
  IF cmds = <<>> THEN 0
  ELSE (IF Head(cmds) = "stop" THEN MaxListeners ELSE 1) + PendingWeight(Tail(cmds))

\* ------------------------------------------------------------------ state
VARIABLES
  scanEnabled,   \* this.scanEnabled
  listeners,     \* how often the adapter's handler is registered, per event type
  nobleState,    \* noble._state, the radio's power state
  scanning,      \* whether the radio is actually scanning
  pending,       \* startScanning / stopScanning commands not yet executed
  devices,       \* this.devices: device id -> device
  conn,          \* diagnostic connection per peripheral address
  lastCall,      \* the host's last discovery call (history)
  sessionAdds,   \* handleDeviceAdded calls per address since discovery was started (history)
  last           \* the operation that ran last and what it did (history)

vars == <<scanEnabled, listeners, nobleState, scanning, pending, devices, conn,
          lastCall, sessionAdds, last>>

NoPeripheral ==
  [localName |-> None, manufacturerData |-> None, connectable |-> FALSE,
   address |-> "-"]

\* `last` of an operation: the scanEnabled it found, how often its handler
\* ran (n), and the calls it made; forced marks a scanStart / scanStop that
\* no command of the adapter caused.  error is the error argument of a
\* callback and disconnects the peripheral.disconnect() calls made.
\* powerSeen is the state of the latest stateChange event so far.
\* For addDevice / removeDevice / removeThing: id is the identifier passed,
\* before the registry the call found, promise the resolve / reject calls
\* made on the returned promise, removes the handleDeviceRemoved calls.
\* added is the set of identifiers that addDevice has announced to the host
\* and no removal has announced since, twice whether the operation
\* announced an identifier that was in that set.
Did(op, state, peripheral, intent, n, cmds, adds, threw) ==
  [op |-> op, state |-> state, peripheral |-> peripheral,
   afterScanStart |-> FALSE, afterCall |-> "-", forced |-> FALSE,
   intent |-> intent, n |-> n,
   starts |-> Count(cmds, "start"), stops |-> Count(cmds, "stop"),
   adds |-> adds, threw |-> threw,
   error |-> FALSE, disconnects |-> 0, powerSeen |-> "-",
   id |-> "-", before |-> << >>, promise |-> << >>, removes |-> 0,
   added |-> {}, twice |-> FALSE]

\* -------------------------------------------------------- scan coordinator
\* noble.on(event, handler): appends, also when the handler is registered already.
On(ls, e) == [ls EXCEPT ![e] = @ + 1]

\* noble.removeListener(event, handler): removes one registration, if any.
RemoveListener(ls, e) == [ls EXCEPT ![e] = IF @ > 0 THEN @ - 1 ELSE 0]

startNobleScanning == <<"start">>

stopNobleScanning == <<"stop">>

\* A _startBLEDiscovery that starts scanning whatever the power state.
startBLEDiscovery_alwaysStart(ls, state) ==
  [scanEnabled |-> TRUE,
   listeners |-> On(On(On(On(ls, "stateChange"), "scanStart"), "scanStop"), "discover"),
   cmds |-> startNobleScanning]

\* The effect of _startBLEDiscovery on (scanEnabled, listeners) and the
\* commands it issues.
startBLEDiscovery(ls, state) ==
  [scanEnabled |-> TRUE,
   listeners |-> On(On(On(On(ls, "stateChange"), "scanStart"), "scanStop"), "discover"),
   cmds |-> IF state = "poweredOn" THEN startNobleScanning ELSE <<>>]

\* A _stopBLEDiscovery that also clears scanEnabled.
stopBLEDiscovery_clearsIntent(se, ls) ==
  [scanEnabled |-> FALSE,
   listeners |-> RemoveListener(RemoveListener(RemoveListener(RemoveListener(
                   ls, "stateChange"), "scanStart"), "scanStop"), "discover"),
   cmds |-> stopNobleScanning]

\* The effect of _stopBLEDiscovery: scanEnabled is left as it is.
stopBLEDiscovery(se, ls) ==
  [scanEnabled |-> se,
   listeners |-> RemoveListener(RemoveListener(RemoveListener(RemoveListener(
                   ls, "stateChange"), "scanStart"), "scanStop"), "discover"),
   cmds |-> stopNobleScanning]

\* The handlers, as the commands one invocation issues.
handleScanStart(se) == IF ~se THEN stopNobleScanning ELSE <<>>

\* _handleScanStop with the condition of _handleScanStart.
handleScanStop_negated(se) == IF ~se THEN startNobleScanning ELSE <<>>

handleScanStop(se) == IF se THEN startNobleScanning ELSE <<>>

\* _handleStateChange without the test of the new state.
handleStateChange_anyState(state, se) ==
  IF se THEN startNobleScanning ELSE stopNobleScanning

handleStateChange(state, se) ==
  IF state = "poweredOn" /\ se THEN startNobleScanning ELSE stopNobleScanning

\* ------------------------------------------------------- discovery handler
\* The condition of _handleDiscover without the test of peripheral.connectable.
FilterOutcome_anyConnectable(peripheral) ==
  IF ~peripheral.localName.has \/ peripheral.localName.val = <<>> THEN "ignore"
  ELSE IF ~StartsWith(peripheral.localName.val, PlaybulbPrefix) THEN "ignore"
  ELSE IF ~peripheral.manufacturerData.has THEN "throw"
  ELSE IF ~StartsWith(ToHex(peripheral.manufacturerData.val), MiPowPrefix) THEN "ignore"
  ELSE "match"

\* The condition of _handleDiscover, evaluated left to right as && does:
\* "throw" is the TypeError of calling toString on an absent manufacturerData.
FilterOutcome(peripheral) ==
  IF ~peripheral.localName.has \/ peripheral.localName.val = <<>> THEN "ignore"
  ELSE IF ~StartsWith(peripheral.localName.val, PlaybulbPrefix) THEN "ignore"
  ELSE IF ~peripheral.manufacturerData.has THEN "throw"
  ELSE IF ~StartsWith(ToHex(peripheral.manufacturerData.val), MiPowPrefix) THEN "ignore"
  ELSE IF ~peripheral.connectable THEN "ignore"
  ELSE "match"

DeviceId_bareAddress(address) == <<address>>

DeviceId(address) == <<"playbulb-", address>>

\* The device description literal that _handleDiscover passes to the
\* PlaybulbDevice constructor.
DiscoveredDescription(peripheral) ==
  [name |-> peripheral.localName.val,
   type |-> "light",
   description |-> peripheral.localName.val \o <<" ", peripheral.address>>,
   properties |-> [on |-> [type |-> "boolean", value |-> FALSE],
                   color |-> [type |-> "string", value |-> "#FFFFFF"]]]

\* new PlaybulbProperty(device, name, propertyDescription): the property
\* caches propertyDescription.value.
PlaybulbProperty(propertyDescription) == propertyDescription.value

\* new PlaybulbDevice(adapter, id, deviceDescription): the fields are copied
\* and one PlaybulbProperty is made per entry of deviceDescription.properties.
NewPlaybulbDevice(id, deviceDescription) ==
  [id |-> id,
   name |-> deviceDescription.name,
   type |-> deviceDescription.type,
   description |-> deviceDescription.description,
   properties |-> [p \in DOMAIN deviceDescription.properties |->
                     PlaybulbProperty(deviceDescription.properties[p])]]

\* new PlaybulbDevice(this, 'playbulb-' + address, {...}) of _handleDiscover.
PlaybulbDevice(peripheral) ==
  NewPlaybulbDevice(DeviceId(peripheral.address), DiscoveredDescription(peripheral))

\* Adapter.handleDeviceAdded of the host: this.devices[device.id] = device,
\* and the host is notified.
handleDeviceAdded(devs, device) ==
  [i \in (DOMAIN devs) \cup {device.id} |-> IF i = device.id THEN device ELSE devs[i]]

\* Adapter.handleDeviceRemoved of the host: delete this.devices[device.id],
\* and the host is notified.
handleDeviceRemoved(devs, device) ==
  [i \in (DOMAIN devs) \ {device.id} |-> devs[i]]

\* The calls made on a promise: resolve(value) or reject(value).
Resolve(value) == [call |-> "resolve", value |-> value]
Reject(value) == [call |-> "reject", value |-> value]

\* An addDevice without the test deviceId in this.devices.
addDevice_unguarded(devs, deviceId, deviceDescription) ==
  LET device == NewPlaybulbDevice(deviceId, deviceDescription) IN
  [devices |-> handleDeviceAdded(devs, device), adds |-> 1, removes |-> 0,
   promise |-> <<Resolve(device)>>]

\* The executor of the promise addDevice returns, run on the registry devs.
addDevice(devs, deviceId, deviceDescription) ==
  IF deviceId \in DOMAIN devs
  THEN [devices |-> devs, adds |-> 0, removes |-> 0,
        promise |-> <<Reject(<<"Device: ", deviceId, " already exists.">>)>>]
  ELSE LET device == NewPlaybulbDevice(deviceId, deviceDescription) IN
       [devices |-> handleDeviceAdded(devs, device), adds |-> 1, removes |-> 0,
        promise |-> <<Resolve(device)>>]

\* A removeDevice that resolves whether or not the device was found.
removeDevice_alwaysResolves(devs, deviceId) ==
  IF deviceId \in DOMAIN devs
  THEN [devices |-> handleDeviceRemoved(devs, devs[deviceId]), adds |-> 0,
        removes |-> 1, promise |-> <<Resolve(devs[deviceId])>>]
  ELSE [devices |-> devs, adds |-> 0, removes |-> 0,
        promise |-> <<Resolve(deviceId)>>]

\* The executor of the promise removeDevice returns.
removeDevice(devs, deviceId) ==
  IF deviceId \in DOMAIN devs
  THEN [devices |-> handleDeviceRemoved(devs, devs[deviceId]), adds |-> 0,
        removes |-> 1, promise |-> <<Resolve(devs[deviceId])>>]
  ELSE [devices |-> devs, adds |-> 0, removes |-> 0,
        promise |-> <<Reject(<<"Device: ", deviceId, " not found.">>)>>]

\* removeThing(device): removeDevice(device.id), whose outcome is logged by
\* the then / catch handlers.
removeThing(devs, device) == removeDevice(devs, device.id)

\* A _handleDiscover that leaves the registration to the connect callback.
handleDiscover_registerOnConnect(peripheral, st) ==
  CASE FilterOutcome(peripheral) = "match" -> [st EXCEPT !.connects = @ + 1]
    [] FilterOutcome(peripheral) = "throw" -> [st EXCEPT !.threw = TRUE]
    [] OTHER -> st

\* One invocation of _handleDiscover on the running result st of an emit:
\* st.devices the registry, st.adds the handleDeviceAdded calls so far,
\* st.connects the peripheral.connect calls so far.
handleDiscover(peripheral, st) ==
  CASE FilterOutcome(peripheral) = "match" ->
         [devices |-> handleDeviceAdded(st.devices, PlaybulbDevice(peripheral)),
          adds |-> st.adds + 1, connects |-> st.connects + 1, threw |-> FALSE]
    [] FilterOutcome(peripheral) = "throw" -> [st EXCEPT !.threw = TRUE]
    [] OTHER -> st

\* noble.emit('discover', peripheral) with the handler registered n times:
\* the listeners run in turn, and an exception ends the emit.
RECURSIVE EmitDiscover(_, _, _)
EmitDiscover(n, peripheral, st) ==
  IF n = 0 \/ st.threw THEN st
  ELSE EmitDiscover(n - 1, peripheral, handleDiscover(peripheral, st))

\* ------------------------------------------------------------------- Init
\* The state the constructor leaves: scanEnabled = false, then
\* _startBLEDiscovery on an emitter that holds no handler of the adapter yet.
NoListeners == [e \in EventTypes |-> 0]

Constructed(state) == startBLEDiscovery(NoListeners, state)

Init ==
  /\ nobleState \in States
  /\ scanEnabled = Constructed(nobleState).scanEnabled
  /\ listeners = Constructed(nobleState).listeners
  /\ pending = Constructed(nobleState).cmds
  /\ scanning = FALSE
  /\ devices = << >>
  /\ conn = [a \in Addresses |-> "idle"]
  /\ lastCall = "constructor"
  /\ sessionAdds = [a \in Addresses |-> 0]
  /\ last = Did("constructor", "-", NoPeripheral, FALSE, 0,
                Constructed(nobleState).cmds, 0, FALSE)

\* ---------------------------------------------------------------- actions
Fits(cmds) == PendingWeight(cmds) <= MaxPending * MaxListeners

Record(d) ==
  [d EXCEPT !.afterScanStart = (last.op = "scanStart"),
            !.powerSeen = last.powerSeen,
            !.added = last.added]

\* A discovery call also records the discovery call before it.
RecordCall(d) == [Record(d) EXCEPT !.afterCall = lastCall]

StartPairing ==
  LET r == startBLEDiscovery(listeners, nobleState) IN
  /\ \A e \in EventTypes : listeners[e] < MaxListeners
  /\ Fits(pending \o r.cmds)
  /\ scanEnabled' = r.scanEnabled
  /\ listeners' = r.listeners
  /\ pending' = pending \o r.cmds
  /\ lastCall' = "startPairing"
  /\ sessionAdds' = [a \in Addresses |-> 0]
  /\ last' = RecordCall(Did("startPairing", "-", NoPeripheral, scanEnabled, 0, r.cmds, 0, FALSE))
  /\ UNCHANGED <<nobleState, scanning, devices, conn>>

CancelPairing ==
  LET r == stopBLEDiscovery(scanEnabled, listeners) IN
  /\ Fits(pending \o r.cmds)
  /\ scanEnabled' = r.scanEnabled
  /\ listeners' = r.listeners
  /\ pending' = pending \o r.cmds
  /\ lastCall' = "cancelPairing"
  /\ last' = RecordCall(Did("cancelPairing", "-", NoPeripheral, scanEnabled, 0, r.cmds, 0, FALSE))
  /\ UNCHANGED <<nobleState, scanning, devices, conn, sessionAdds>>

\* The radio changes its power state and emits stateChange(s).
StateChange(s) ==
  LET n == listeners["stateChange"]
      cmds == Repeat(n, handleStateChange(s, scanEnabled)) IN
  /\ s # nobleState
  /\ Fits(pending \o cmds)
  /\ nobleState' = s
  /\ scanning' = (s = "poweredOn" /\ scanning)
  /\ pending' = pending \o cmds
  /\ last' = [Record(Did("stateChange", s, NoPeripheral, scanEnabled, n, cmds, 0, FALSE))
                EXCEPT !.powerSeen = s]
  /\ UNCHANGED <<scanEnabled, listeners, devices, conn, lastCall, sessionAdds>>

\* The radio reports that scanning began: emit('scanStart').
ScanStarted(rest, forced) ==
  LET n == listeners["scanStart"]
      cmds == Repeat(n, handleScanStart(scanEnabled)) IN
  /\ Fits(rest \o cmds)
  /\ scanning' = TRUE
  /\ pending' = rest \o cmds
  /\ last' = [Record(Did("scanStart", "-", NoPeripheral, scanEnabled, n, cmds, 0, FALSE))
                EXCEPT !.forced = forced]
  /\ UNCHANGED <<scanEnabled, listeners, nobleState, devices, conn, lastCall, sessionAdds>>

\* The radio reports that scanning ended: emit('scanStop').
ScanStopped(rest, forced) ==
  LET n == listeners["scanStop"]
      cmds == Repeat(n, handleScanStop(scanEnabled)) IN
  /\ Fits(rest \o cmds)
  /\ scanning' = FALSE
  /\ pending' = rest \o cmds
  /\ last' = [Record(Did("scanStop", "-", NoPeripheral, scanEnabled, n, cmds, 0, FALSE))
                EXCEPT !.forced = forced]
  /\ UNCHANGED <<scanEnabled, listeners, nobleState, devices, conn, lastCall, sessionAdds>>

\* The radio executes the oldest command and reports it.
RadioObey ==
  /\ pending # <<>>
  /\ \/ /\ Head(pending) = "start"
        /\ nobleState = "poweredOn"
        /\ ScanStarted(Tail(pending), FALSE)
     \/ /\ Head(pending) = "stop"
        /\ ScanStopped(Tail(pending), FALSE)

\* A radio that is not powered on may lose a command without any report.
RadioDrop ==
  /\ pending # <<>>
  /\ nobleState # "poweredOn"
  /\ pending' = Tail(pending)
  /\ scanning' = FALSE
  /\ last' = Record(Did("commandLost", "-", NoPeripheral, scanEnabled, 0, <<>>, 0, FALSE))
  /\ UNCHANGED <<scanEnabled, listeners, nobleState, devices, conn, lastCall, sessionAdds>>

\* The radio stack starts scanning on its own initiative.
RadioAutoStart ==
  /\ nobleState = "poweredOn"
  /\ ~scanning
  /\ ScanStarted(pending, TRUE)

\* The radio stack stops scanning on its own (e.g. around a connection).
RadioAutoStop ==
  /\ scanning
  /\ ScanStopped(pending, TRUE)

RECURSIVE Sum(_, _)
Sum(f, S) == IF S = {} THEN 0 ELSE LET x == CHOOSE x \in S : TRUE IN f[x] + Sum(f, S \ {x})

SessionTotal == Sum(sessionAdds, Addresses)

\* What the radio may report: every advertisement at the first address, and
\* the Playbulbs at the others.
Peripherals ==
  {p \in Advertisements :
     p.address = "AA:01" \/ FilterOutcome(p) = "match"}

\* The scanning radio detects a peripheral: emit('discover', peripheral).
Discover(peripheral) ==
  LET n == listeners["discover"]
      a == peripheral.address
      r == EmitDiscover(n, peripheral,
             [devices |-> devices, adds |-> 0, connects |-> 0, threw |-> FALSE]) IN
  /\ scanning
  /\ SessionTotal + r.adds <= MaxAdds
  /\ devices' = r.devices
  /\ sessionAdds' = [sessionAdds EXCEPT ![a] = @ + r.adds]
  /\ conn' = IF r.connects > 0 THEN [conn EXCEPT ![a] = "connecting"] ELSE conn
  /\ last' = Record(Did("discover", "-", peripheral, scanEnabled, n, <<>>, r.adds, r.threw))
  /\ UNCHANGED <<scanEnabled, listeners, nobleState, scanning, pending, lastCall>>

\* peripheral.connect's callback, with or without an error: the error is
\* not looked at, discoverServices is requested and peripheral.disconnect()
\* is called right away, while the services callback is outstanding.
ConnectCallback(a, error) ==
  /\ conn[a] = "connecting"
  /\ conn' = [conn EXCEPT ![a] = "services"]
  /\ last' = [Record(Did("connectCallback", "-", [NoPeripheral EXCEPT !.address = a],
                         scanEnabled, 1, <<>>, 0, FALSE))
                EXCEPT !.error = error, !.disconnects = 1]
  /\ UNCHANGED <<scanEnabled, listeners, nobleState, scanning, pending, devices,
                 lastCall, sessionAdds>>

\* discoverServices' callback with k services (none on error):
\* discoverCharacteristics is requested for each.
ServicesCallback(a, k) ==
  /\ conn[a] = "services"
  /\ conn' = [conn EXCEPT ![a] = IF k = 0 THEN "idle" ELSE "characteristics"]
  /\ last' = Record(Did("servicesCallback", "-", [NoPeripheral EXCEPT !.address = a],
                        scanEnabled, 1, <<>>, 0, FALSE))
  /\ UNCHANGED <<scanEnabled, listeners, nobleState, scanning, pending, devices,
                 lastCall, sessionAdds>>

\* discoverCharacteristics' callback: logs only.
CharacteristicsCallback(a) ==
  /\ conn[a] = "characteristics"
  /\ conn' = [conn EXCEPT ![a] = "idle"]
  /\ last' = Record(Did("characteristicsCallback", "-", [NoPeripheral EXCEPT !.address = a],
                        scanEnabled, 1, <<>>, 0, FALSE))
  /\ UNCHANGED <<scanEnabled, listeners, nobleState, scanning, pending, devices,
                 lastCall, sessionAdds>>

\* What the host may pass to addDevice, removeDevice and removeThing.
DeviceIds == {DeviceId(a) : a \in Addresses} \cup {<<"lamp-1">>}

DeviceDescriptions ==
  {DiscoveredDescription(p) : p \in {q \in Peripherals : FilterOutcome(q) = "match"}}

\* `last` of a registry call with result r.
DidRegistry(op, deviceId, r) ==
  [Record(Did(op, "-", NoPeripheral, scanEnabled, 0, <<>>, r.adds, FALSE))
     EXCEPT !.id = deviceId, !.before = devices,
            !.promise = r.promise, !.removes = r.removes,
            !.added = IF op = "addDevice" /\ r.adds > 0 THEN last.added \cup {deviceId}
                      ELSE IF r.removes > 0 THEN last.added \ {deviceId}
                      ELSE last.added,
            !.twice = (op = "addDevice" /\ r.adds > 0 /\ deviceId \in last.added)]

AddDevice(deviceId, deviceDescription) ==
  LET r == addDevice(devices, deviceId, deviceDescription) IN
  /\ devices' = r.devices
  /\ last' = DidRegistry("addDevice", deviceId, r)
  /\ UNCHANGED <<scanEnabled, listeners, nobleState, scanning, pending, conn,
                 lastCall, sessionAdds>>

RemoveDevice(deviceId) ==
  LET r == removeDevice(devices, deviceId) IN
  /\ devices' = r.devices
  /\ last' = DidRegistry("removeDevice", deviceId, r)
  /\ UNCHANGED <<scanEnabled, listeners, nobleState, scanning, pending, conn,
                 lastCall, sessionAdds>>

\* The host unpairs a thing: the device object it passes carries the id.
RemoveThing(deviceId) ==
  LET r == removeThing(devices, [id |-> deviceId]) IN
  /\ devices' = r.devices
  /\ last' = DidRegistry("removeThing", deviceId, r)
  /\ UNCHANGED <<scanEnabled, listeners, nobleState, scanning, pending, conn,
                 lastCall, sessionAdds>>

\* The scan coordinator: the host's discovery calls and the radio's power
\* and scanning events.
ScanNext ==
  \/ StartPairing
  \/ CancelPairing
  \/ \E s \in States : StateChange(s)
  \/ RadioObey
  \/ RadioDrop
  \/ RadioAutoStart
  \/ RadioAutoStop

\* The discovery handler: discover events and the diagnostic connection's
\* callbacks, with startPairing (a new session, one more registration of the
\* handler) and the radio executing commands.
DiscoveryNext ==
  \/ StartPairing
  \/ RadioObey
  \/ \E p \in Peripherals : Discover(p)
  \/ \E a \in Addresses, error \in BOOLEAN : ConnectCallback(a, error)
  \/ \E a \in Addresses, k \in 0..1 : ServicesCallback(a, k)
  \/ \E a \in Addresses : CharacteristicsCallback(a)

\* The device registry: the host's add and remove calls.
RegistryNext ==
  \/ \E id \in DeviceIds, d \in DeviceDescriptions : AddDevice(id, d)
  \/ \E id \in DeviceIds : RemoveDevice(id)
  \/ \E id \in DeviceIds : RemoveThing(id)

Next == ScanNext \/ DiscoveryNext \/ RegistryNext

\* The whole adapter.
Spec == Init /\ [][Next]_vars

\* The two components share only the listener registrations: the scan
\* handlers never touch the registry, the discover handler never issues a
\* scan command.  Each is checked with the events that concern it.
ScanSpec == Init /\ [][ScanNext]_vars

DiscoverySpec == Init /\ [][DiscoveryNext]_vars

RegistrySpec == Init /\ [][RegistryNext]_vars

\* The radio executes what it is sent, and its reports are delivered.
FairScanSpec == ScanSpec /\ WF_vars(RadioObey) /\ WF_vars(RadioDrop)

TypeOK ==
  /\ scanEnabled \in BOOLEAN
  /\ listeners \in [EventTypes -> 0..MaxListeners]
  /\ nobleState \in States
  /\ scanning \in BOOLEAN
  /\ Fits(pending)
  /\ \A a \in Addresses : conn[a] \in {"idle", "connecting", "services", "characteristics"}
  /\ \A a \in Addresses : sessionAdds[a] \in 0..MaxAdds

\* ----------------------------------------------------------------- claims
RadioEvents == {"stateChange", "scanStart", "scanStop"}

\* C1: once cancelPairing has returned, no radio event (stateChange,
\* scanStart, scanStop) makes the adapter issue startScanning until the next
\* startPairing.
C1_NoStartAfterCancel ==
  (lastCall = "cancelPairing" /\ last.op \in RadioEvents) => last.starts = 0

\* C2: after _startBLEDiscovery has run twice in a row (constructor or
\* startPairing, then startPairing, no cancelPairing between), exactly one
\* listener is registered for each of the four event types.
C2_OneListenerPerEvent ==
  (last.op = "startPairing" /\ last.afterCall \in {"constructor", "startPairing"})
    => \A e \in EventTypes : listeners[e] = 1

\* C3: after cancelPairing, scanEnabled is false, and stays false until the
\* next startPairing.
C3_IntentFalseAfterCancel ==
  lastCall = "cancelPairing" => ~scanEnabled

\* C4: immediately after cancelPairing returns, no listener of the adapter is
\* registered on any of the four event types and stopScanning has been issued.
C4_Unsubscribed ==
  last.op = "cancelPairing"
    => /\ \A e \in EventTypes : listeners[e] = 0
       /\ last.stops >= 1

\* C5: after cancelPairing (scanIntent false), a scanStart event handled by
\* the adapter makes it issue stopScanning at once, and no startScanning.
C5_IntentOverride ==
  (lastCall = "cancelPairing" /\ last.op = "scanStart" /\ last.n >= 1)
    => (last.stops >= 1 /\ last.starts = 0)

\* C6 (the commands): a scanStop event handled with scanEnabled true makes
\* every registered handler issue startScanning, and no stopScanning; a
\* scanStart event with scanEnabled true issues no stopScanning.
C6_Reissues ==
  /\ (last.op = "scanStop" /\ last.intent /\ last.n >= 1)
       => (last.starts = last.n /\ last.stops = 0)
  /\ (last.op = "scanStart" /\ last.intent) => last.stops = 0

\* C6: with scanEnabled true and the handlers registered, a scanStart event
\* followed by a forced scanStop event makes the adapter issue startScanning
\* again (a scanStart alone issues no stopScanning), so that the radio, while
\* it stays powered on, scans again.
C6_SelfHealing ==
  /\ []C6_Reissues
  /\ (last.op = "scanStop" /\ last.intent /\ last.n >= 1)
       ~> (scanning \/ nobleState # "poweredOn")

\* C6 happens: a scanStart event, then at once a scanStop event the radio
\* forced, answered with startScanning.
C6_Witness ==
  /\ last.op = "scanStop"
  /\ last.forced
  /\ last.afterScanStart
  /\ last.intent
  /\ last.n >= 1
  /\ last.starts >= 1
  /\ pending = <<"start">>
  /\ ~scanning

\* C7: on stateChange(newState) every invocation of the handler issues
\* startScanning (and no stopScanning) if newState is poweredOn and
\* scanEnabled is true, and otherwise stopScanning (and no startScanning).
C7_StateChange ==
  (last.op = "stateChange" /\ last.n >= 1)
    => IF last.state = "poweredOn" /\ last.intent
       THEN last.starts = last.n /\ last.stops = 0
       ELSE last.stops = last.n /\ last.starts = 0

\* C7 happens: stateChange("unauthorized") handled, answered with stopScanning.
C7_Witness ==
  /\ last.op = "stateChange"
  /\ last.state = "unauthorized"
  /\ last.intent
  /\ last.n >= 1
  /\ last.stops >= 1
  /\ last.starts = 0

\* C8: with scanEnabled true and the handler registered, one
\* stateChange("poweredOn") event results in exactly one startScanning call.
C8_ExactlyOneStart ==
  (last.op = "stateChange" /\ last.state = "poweredOn" /\ last.intent /\ last.n >= 1)
    => last.starts = 1

\* C9: with the radio powered on and executing its commands, the radio's
\* scanning state comes to equal the intent of the last discovery call, once
\* the host makes no further call and the radio has stopped acting on its
\* own: after startPairing (or construction) the radio scans; after
\* cancelPairing has returned there comes a moment when the radio has no
\* command left to execute and does not scan.
DiscoveryCalls == {"startPairing", "cancelPairing"}

C9_Convergence ==
  <>[](last.op \notin DiscoveryCalls /\ ~last.forced)
    => /\ [](lastCall # "cancelPairing" /\ nobleState = "poweredOn"
               => <>(\/ lastCall = "cancelPairing"
                     \/ nobleState # "poweredOn"
                     \/ scanning))
       /\ [](last.op = "cancelPairing" /\ nobleState = "poweredOn"
               => <>(\/ last.op = "startPairing"
                     \/ nobleState # "poweredOn"
                     \/ (pending = <<>> /\ ~scanning)))

\* C10: within one discovery session handleDeviceAdded is called at most once
\* per peripheral address, and a discover event for an address that was
\* registered before in the session calls it not at all.
C10_ExactlyOnce ==
  /\ \A a \in Addresses : sessionAdds[a] <= 1
  /\ (/\ last.op = "discover"
      /\ FilterOutcome(last.peripheral) = "match"
      /\ sessionAdds[last.peripheral.address] - last.adds >= 1)
       => last.adds = 0

\* C11: for a peripheral whose local name and manufacturer data are both
\* present, the discover handler registers a device if and only if the local
\* name begins with "PLAYBULB ", the hex-encoded manufacturer data begins
\* with 4d49 and connectable is true; with any one of the three changed no
\* device is registered.
IsPlaybulb(peripheral) ==
  /\ StartsWith(peripheral.localName.val, PlaybulbPrefix)
  /\ StartsWith(ToHex(peripheral.manufacturerData.val), MiPowPrefix)
  /\ peripheral.connectable

C11_Filter ==
  (/\ last.op = "discover"
   /\ last.n >= 1
   /\ last.peripheral.localName.has
   /\ last.peripheral.manufacturerData.has)
    => /\ IsPlaybulb(last.peripheral) => last.adds = last.n
       /\ ~IsPlaybulb(last.peripheral) => last.adds = 0
       /\ ~last.threw

\* C11 happens: a peripheral that differs from a Playbulb in one condition
\* only (not connectable) was reported, and nothing was registered.
C11_Witness ==
  /\ last.op = "discover"
  /\ last.n >= 1
  /\ last.peripheral.localName = Some(NameCandle)
  /\ last.peripheral.manufacturerData = Some(<<77, 73, 1>>)
  /\ ~last.peripheral.connectable
  /\ last.adds = 0
  /\ DeviceId(last.peripheral.address) \notin DOMAIN devices

\* C12: for a peripheral whose local name or manufacturer data is absent,
\* the discover handler completes without raising an error and registers no
\* device.
C12_FilterTotal ==
  (/\ last.op = "discover"
   /\ last.n >= 1
   /\ (~last.peripheral.localName.has \/ ~last.peripheral.manufacturerData.has))
    => (~last.threw /\ last.adds = 0)

\* C13: when a discover event for a matching peripheral with address A has
\* been handled, the registry holds a device whose identifier is
\* "playbulb-" followed by A and which has exactly two properties: on with
\* value false and color with value "#FFFFFF".
C13_DeviceShape ==
  (last.op = "discover" /\ last.adds >= 1)
    => LET id == <<"playbulb-", last.peripheral.address>> IN
       /\ id \in DOMAIN devices
       /\ devices[id].id = id
       /\ DOMAIN devices[id].properties = {"on", "color"}
       /\ devices[id].properties.on = FALSE
       /\ devices[id].properties.color = "#FFFFFF"

\* C13 happens: the Playbulb at AA:02 was reported and registered.
C13_Witness ==
  /\ last.op = "discover"
  /\ last.adds >= 1
  /\ last.peripheral.address = "AA:02"
  /\ <<"playbulb-", "AA:02">> \in DOMAIN devices

\* C14: the device of a matching peripheral is registered within the
\* discover handler itself, while the diagnostic connection's callback is
\* still outstanding; and once the connect callback (with or without an
\* error), the services callback or the characteristics callback has run,
\* in any interleaving with other events, it has registered nothing and the
\* device is still registered.
DiagnosticCallbacks == {"connectCallback", "servicesCallback", "characteristicsCallback"}

C14_RegisteredInHandler ==
  /\ (/\ last.op = "discover"
      /\ last.n >= 1
      /\ last.peripheral.localName.has
      /\ last.peripheral.manufacturerData.has
      /\ IsPlaybulb(last.peripheral))
       => /\ DeviceId(last.peripheral.address) \in DOMAIN devices
          /\ last.adds = last.n
          /\ conn[last.peripheral.address] = "connecting"
  /\ last.op \in DiagnosticCallbacks
       => /\ DeviceId(last.peripheral.address) \in DOMAIN devices
          /\ last.adds = 0

\* C14 happens: the connect callback reported an error, and the device is
\* registered all the same.
C14_Witness ==
  /\ last.op = "connectCallback"
  /\ last.error
  /\ DeviceId(last.peripheral.address) \in DOMAIN devices

\* C18: peripheral.disconnect() is issued only once the enumeration of
\* services and characteristics has completed, that is when no callback of
\* the enumeration is outstanding for the peripheral.
C18_DisconnectAfterEnumeration ==
  last.disconnects >= 1 => conn[last.peripheral.address] = "idle"

\* C15: when startPairing has run directly after cancelPairing, discovery
\* is active: scanEnabled is true, the adapter is subscribed to all four
\* event types, and startPairing itself issued one startScanning if the
\* radio was powered on when it was called and none otherwise (and no
\* stopScanning).
C15_RestartAfterCancel ==
  (last.op = "startPairing" /\ last.afterCall = "cancelPairing")
    => /\ scanEnabled
       /\ \A e \in EventTypes : listeners[e] >= 1
       /\ last.starts = (IF nobleState = "poweredOn" THEN 1 ELSE 0)
       /\ last.stops = 0

\* C15 happens: startPairing followed cancelPairing with the radio powered
\* on, and a fresh startScanning is in the command queue.
C15_Witness ==
  /\ last.op = "startPairing"
  /\ last.afterCall = "cancelPairing"
  /\ nobleState = "poweredOn"
  /\ last.starts = 1
  /\ pending # <<>>
  /\ pending[Len(pending)] = "start"

\* C19: once a stateChange event has reported a state other than poweredOn,
\* and until a stateChange event reports poweredOn, no operation of the
\* adapter issues startScanning; in particular the scanStop handler does
\* not.
C19_StartOnlyPoweredOn ==
  last.powerSeen \notin {"-", "poweredOn"} => last.starts = 0

\* C20: scanEnabled is true in every state after the constructor, every
\* operation found it true, the scanStart handler has issued no
\* stopScanning and each invocation of the scanStop handler has issued one
\* startScanning.
C20_ScanEnabledAlways ==
  /\ scanEnabled
  /\ last.op # "constructor" => last.intent
  /\ last.op = "scanStart" => last.stops = 0
  /\ last.op = "scanStop" => last.starts = last.n

\* C20 happens: after cancelPairing a scanStop event reached the handler,
\* which found scanEnabled true and issued startScanning.
C20_Witness ==
  /\ last.op = "scanStop"
  /\ lastCall = "cancelPairing"
  /\ last.n >= 1
  /\ last.intent
  /\ last.starts >= 1

\* C16: removeDevice or removeThing of an identifier that is not in the
\* registry rejects the promise once and never resolves it, issues no
\* device-removed notification and leaves the registry as it was; of a
\* registered identifier it issues exactly one device-removed notification
\* and resolves once, with the device that was registered.
C16_Remove ==
  last.op \in {"removeDevice", "removeThing"}
    => IF last.id \in DOMAIN last.before
       THEN /\ last.removes = 1
            /\ last.promise = <<Resolve(last.before[last.id])>>
       ELSE /\ last.removes = 0
            /\ Len(last.promise) = 1
            /\ last.promise[1].call = "reject"
            /\ devices = last.before

\* C16 happens: removeThing was called for an identifier that is not
\* registered while another device is, and the promise was rejected.
C16_Witness ==
  /\ last.op = "removeThing"
  /\ last.id \notin DOMAIN last.before
  /\ last.before # << >>
  /\ last.promise # << >>
  /\ last.promise[1].call = "reject"

\* C17: addDevice with an identifier that is in the registry rejects once,
\* issues no device-added notification and leaves the registry as it was;
\* with a new identifier it issues exactly one device-added notification and
\* resolves once with the new device, which carries that identifier.  No
\* addDevice announces an identifier that an earlier addDevice announced
\* and no removal has announced since.
C17_Add ==
  /\ last.op = "addDevice"
       => IF last.id \in DOMAIN last.before
          THEN /\ last.adds = 0
               /\ Len(last.promise) = 1
               /\ last.promise[1].call = "reject"
               /\ devices = last.before
          ELSE /\ last.adds = 1
               /\ Len(last.promise) = 1
               /\ last.promise[1].call = "resolve"
               /\ last.promise[1].value.id = last.id
               /\ last.id \in DOMAIN devices
               /\ devices[last.id] = last.promise[1].value
  /\ ~last.twice

\* C17 happens: addDevice was called with an identifier that an earlier
\* addDevice had registered, and was rejected.
C17_Witness ==
  /\ last.op = "addDevice"
  /\ last.id \in DOMAIN last.before
  /\ last.id \in last.added
  /\ last.promise # << >>
  /\ last.promise[1].call = "reject"

====
